---- MODULE Spec2Model ----
(***************************************************************************)
(* Data Sweeper (src/app.py): a Streamlit script.  Streamlit re-executes   *)
(* the whole script, top to bottom, after every user interaction; only the *)
(* widget values survive from one execution to the next.  The model has    *)
(* one action per user interaction (each starts a new execution) and one   *)
(* action per stage of the per-file loop body.                             *)
(*                                                                         *)
(* Strings are sequences of one-character strings, so that splitext,       *)
(* lower and replace are computed as Python computes them.  Cells and      *)
(* column labels are records [k, n, d, s]: a number n/d, a string s, or    *)
(* NaN.                                                                    *)
(***************************************************************************)
EXTENDS Integers, Sequences, FiniteSets, TLC

\* bound on a session: files uploaded plus user interactions after the upload
MaxSession == 4

-----------------------------------------------------------------------------
(* Strings *)

UpperChars == <<"A","B","C","D","E","F","G","H","I","J","K","L","M",
                "N","O","P","Q","R","S","T","U","V","W","X","Y","Z">>
LowerChars == <<"a","b","c","d","e","f","g","h","i","j","k","l","m",
                "n","o","p","q","r","s","t","u","v","w","x","y","z">>
DigitChars == <<"0","1","2","3","4","5","6","7","8","9">>

Range(f) == {f[x] : x \in DOMAIN f}

\* str.lower() on one character
LowerChar(c) ==
  IF \E k \in 1..26 : UpperChars[k] = c
  THEN LowerChars[CHOOSE k \in 1..26 : UpperChars[k] = c]
  ELSE c

\* str.lower()
StrLower(s) == [k \in 1..Len(s) |-> LowerChar(s[k])]

\* the character class [A-Za-z0-9 ] of the cleaning regex
KeptChar(c) == c \in Range(UpperChars) \cup Range(LowerChars) \cup Range(DigitChars) \cup {" "}

\* re.sub(r'[^A-Za-z0-9 ]+', '', s)
RegexStrip(s) == SelectSeq(s, KeptChar)

\* str.replace(old, new): every non-overlapping occurrence, left to right
RECURSIVE StrReplace(_, _, _)
StrReplace(s, old, new) ==
  IF old = <<>>
  THEN IF s = <<>> THEN new ELSE new \o <<Head(s)>> \o StrReplace(Tail(s), old, new)
  ELSE IF Len(s) < Len(old) THEN s
  ELSE IF SubSeq(s, 1, Len(old)) = old
       THEN new \o StrReplace(SubSeq(s, Len(old) + 1, Len(s)), old, new)
       ELSE <<Head(s)>> \o StrReplace(Tail(s), old, new)

\* str.rfind(c) as a 1-based position, 0 when absent
LastIndexOf(s, c) ==
  IF \E k \in 1..Len(s) : s[k] = c
  THEN CHOOSE k \in 1..Len(s) : s[k] = c /\ \A m \in (k+1)..Len(s) : s[m] # c
  ELSE 0

\* os.path.splitext(p): <<root, ext>>; the extension starts at the last dot
\* of the last path component, leading dots of that component not counted
SplitExt(p) ==
  LET sep == LastIndexOf(p, "/")
      dot == LastIndexOf(p, ".")
  IN IF dot > sep /\ \E k \in (sep+1)..(dot-1) : p[k] # "."
     THEN <<SubSeq(p, 1, dot - 1), SubSeq(p, dot, Len(p))>>
     ELSE <<p, <<>> >>

\* str(n) for n >= 0
RECURSIVE IntToStr(_)
IntToStr(n) == IF n < 10 THEN <<DigitChars[n + 1]>>
               ELSE IntToStr(n \div 10) \o <<DigitChars[(n % 10) + 1]>>

-----------------------------------------------------------------------------
(* Cells, columns, tables *)

NumCell(n, d) == [k |-> "num", n |-> n, d |-> d, s |-> <<>>]
StrCell(s)    == [k |-> "str", n |-> 0, d |-> 1, s |-> s]
NaN           == [k |-> "nan", n |-> 0, d |-> 1, s |-> <<>>]

\* str(label) of a column label, as the f-string of line 77 formats it
LabelStr(c) == IF c.k = "num" THEN IntToStr(c.n) ELSE c.s

\* bool(label): what Index.any() tests on each column label
Truthy(c) == IF c.k = "num" THEN c.n # 0 ELSE c.s # <<>>

Col(label, dtype) == [label |-> label, dtype |-> dtype]
Row(idx, cells)   == [idx |-> idx, cells |-> cells]
NoTable == [cols |-> <<>>, rows |-> <<>>]

\* df.select_dtypes(include=[dtype]).columns, as column positions in order
RECURSIVE ColsOfType(_, _, _)
ColsOfType(t, dtype, from) ==
  IF from > Len(t.cols) THEN <<>>
  ELSE (IF t.cols[from].dtype = dtype THEN <<from>> ELSE <<>>)
       \o ColsOfType(t, dtype, from + 1)

select_dtypes(t, dtype) == ColsOfType(t, dtype, 1)

RECURSIVE GCD(_, _)
GCD(a, b) == IF b = 0 THEN a ELSE GCD(b, a % b)

Abs(x) == IF x < 0 THEN -x ELSE x

Frac(n, d) == LET g == GCD(Abs(n), d) IN IF n = 0 THEN NumCell(0, 1) ELSE NumCell(n \div g, d \div g)

\* Series.mean(): the mean of the present values, NaN when there is none
RECURSIVE SumFrom(_, _, _)
SumFrom(t, c, from) ==
  IF from > Len(t.rows) THEN <<0, 1, 0>>
  ELSE LET rest == SumFrom(t, c, from + 1)
           v == t.rows[from].cells[c]
       IN IF v.k = "num"
          THEN <<v.n * rest[2] + rest[1] * v.d, v.d * rest[2], rest[3] + 1>>
          ELSE rest

mean(t, c) ==
  LET acc == SumFrom(t, c, 1)
  IN IF acc[3] = 0 THEN NaN ELSE Frac(acc[1], acc[2] * acc[3])

\* x.str.lower() on a cell of an object column: non-strings become NaN
LowerCell(v) == IF v.k = "str" THEN StrCell(StrLower(v.s)) ELSE NaN

\* .replace(r'[^A-Za-z0-9 ]+', '', regex=True) on one cell
StripCell(v) == IF v.k = "str" THEN StrCell(RegexStrip(v.s)) ELSE v

\* .fillna(means) on one cell of column c
FillCell(t, c, v) == IF v.k = "nan" THEN mean(t, c) ELSE v

\* df[cs] = df[cs].<op>: the cells of the columns at positions cs rewritten
MapCols(t, cs, op) ==
  [t EXCEPT !.rows = [r \in 1..Len(t.rows) |->
     [t.rows[r] EXCEPT !.cells = [c \in 1..Len(t.cols) |->
        LET v == t.rows[r].cells[c]
        IN IF c \notin Range(cs) THEN v
           ELSE CASE op = "lower" -> LowerCell(v)
                  [] op = "strip" -> StripCell(v)
                  [] op = "fillna_mean" -> FillCell(t, c, v)]]]]

-----------------------------------------------------------------------------
(* The library calls of the loop body, as table operators *)

\* df.drop_duplicates(inplace=True): keep the first of equal rows, index kept
drop_duplicates(t) ==
  [t EXCEPT !.rows = SelectSeq(t.rows,
     LAMBDA r : ~ \E q \in 1..Len(t.rows) :
        t.rows[q].idx < r.idx /\ t.rows[q].cells = r.cells)]

\* lines 55-56
LowercaseText(t) == MapCols(t, select_dtypes(t, "object"), "lower")

\* lines 69-70
RemoveSpecial(t) == MapCols(t, select_dtypes(t, "object"), "strip")

\* numeric_cols.any() of line 62: the truth value of the column LABELS
IndexAny(t, cs) == \E k \in 1..Len(cs) : Truthy(t.cols[cs[k]].label)

\* lines 61-66: <<table, message>>
FillMissing(t) ==
  LET numeric_cols == select_dtypes(t, "number")
  IN IF IndexAny(t, numeric_cols)
     THEN <<MapCols(t, numeric_cols, "fillna_mean"), "success">>
     ELSE <<t, "warning">>

\* Series.unique(): the distinct values in order of first appearance
RECURSIVE UniqueFrom(_, _, _, _)
UniqueFrom(t, c, from, seen) ==
  IF from > Len(t.rows) THEN seen
  ELSE LET v == t.rows[from].cells[c]
       IN UniqueFrom(t, c, from + 1,
            IF \E k \in 1..Len(seen) : seen[k] = v THEN seen ELSE Append(seen, v))

unique(t, c) == UniqueFrom(t, c, 1, <<>>)

\* Series.isin(values) on one cell; pandas matches NaN against NaN
isin_nan_never(v, vals) == v.k # "nan" /\ \E k \in 1..Len(vals) : vals[k] = v

isin(v, vals) == \E k \in 1..Len(vals) : vals[k] = v

\* line 78: df[df[selected_col].isin(selected_vals)]
FilterRows(t, c, vals) ==
  [t EXCEPT !.rows = SelectSeq(t.rows, LAMBDA r : isin(r.cells[c], vals))]

\* numeric_cols.iloc[:, :2] restricted to the columns at positions cs
Project(t, cs) ==
  [cols |-> [k \in 1..Len(cs) |-> t.cols[cs[k]]],
   rows |-> [r \in 1..Len(t.rows) |->
              Row(t.rows[r].idx, [k \in 1..Len(cs) |-> t.rows[r].cells[cs[k]]])]]

NoChart == [shown |-> "off", data |-> NoTable]

Visualization_one_suffices(t) ==
  LET numeric_cols == select_dtypes(t, "number")
  IN IF Len(numeric_cols) > 0
     THEN [shown |-> "chart",
           data |-> Project(t, SubSeq(numeric_cols, 1, IF Len(numeric_cols) > 1 THEN 2 ELSE 1))]
     ELSE [shown |-> "warning", data |-> NoTable]

\* lines 100-104
Visualization(t) ==
  LET numeric_cols == select_dtypes(t, "number")
  IN IF Len(numeric_cols) > 1
     THEN [shown |-> "chart", data |-> Project(t, SubSeq(numeric_cols, 1, 2))]
     ELSE [shown |-> "warning", data |-> NoTable]

\* df.to_csv(buffer, index=False): a header line of label texts, then one
\* line per row; a missing value is written as the empty field, the index is
\* not written.  A number stays a number token (its decimal text).
to_csv(t) ==
  [fmt |-> "csv",
   header |-> [c \in 1..Len(t.cols) |-> StrCell(LabelStr(t.cols[c].label))],
   lines |-> [r \in 1..Len(t.rows) |->
                [c \in 1..Len(t.cols) |->
                   IF t.rows[r].cells[c].k = "nan" THEN StrCell(<<>>)
                   ELSE t.rows[r].cells[c]]]]

\* df.to_excel(buffer, index=False): typed header cells, then typed cells; a
\* missing value is an empty cell
to_excel(t) ==
  [fmt |-> "xlsx",
   header |-> [c \in 1..Len(t.cols) |-> t.cols[c].label],
   lines |-> [r \in 1..Len(t.rows) |-> t.rows[r].cells]]

NoBuffer == [fmt |-> "none", header |-> <<>>, lines |-> <<>>]

-----------------------------------------------------------------------------
(* The files a user may upload *)

TableA ==
  [cols |-> <<Col(StrCell(<<"n">>), "object"), Col(StrCell(<<"a","g","e">>), "number")>>,
   rows |-> <<Row(0, <<StrCell(<<"A","l">>), NumCell(30, 1)>>),
              Row(1, <<StrCell(<<"b","!">>), NaN>>),
              Row(2, <<StrCell(<<"A","l">>), NumCell(30, 1)>>)>>]

TableB ==
  [cols |-> <<Col(StrCell(<<"x">>), "number"), Col(StrCell(<<"y">>), "number")>>,
   rows |-> <<Row(0, <<NumCell(1, 1), NumCell(2, 1)>>),
              Row(1, <<NumCell(2, 1), NumCell(2, 1)>>),
              Row(2, <<NumCell(2, 1), NumCell(3, 1)>>)>>]

\* a sheet whose second header cell is the number 0: read_excel keeps it a
\* number
TableD ==
  [cols |-> <<Col(StrCell(<<"t">>), "object"), Col(NumCell(0, 1), "number")>>,
   rows |-> <<Row(0, <<StrCell(<<"q">>), NumCell(4, 1)>>),
              Row(1, <<NaN, NaN>>)>>]

Catalog ==
  << [name |-> <<"a",".","c","s","v">>,      table |-> TableA],
     [name |-> <<"B",".","C","S","V">>,      table |-> TableB],
     [name |-> <<"d",".","x","l","s","x">>,  table |-> TableD],
     [name |-> <<"n",".","t","x","t">>,      table |-> NoTable] >>

-----------------------------------------------------------------------------
(* Loading *)

ExtCsv  == <<".","c","s","v">>
ExtXlsx == <<".","x","l","s","x">>

\* pd.read_csv(file): every header field is text
read_csv(f) ==
  [f.table EXCEPT !.cols = [c \in 1..Len(f.table.cols) |->
     Col(StrCell(LabelStr(f.table.cols[c].label)), f.table.cols[c].dtype)]]

\* pd.read_excel(file): header cells keep their type
read_excel(f) == f.table

\* tempfile.NamedTemporaryFile(delete=False, suffix=".html").name; the files
\* are never deleted and are created exclusively, so no name is ever reused
TmpRand == {"k", "7"}
TmpName(r) == <<"/","t","m","p","/","t","m","p",r,".","h","t","m","l">>

MimeCsv  == "text/csv"
MimeXlsx == "application/vnd.openxmlformats-officedocument.spreadsheetml.sheet"

-----------------------------------------------------------------------------
(* Streamlit widgets.  A widget is identified by its kind, its label (or    *)
(* key) and its options; a second widget with the identity of one already   *)
(* created in the same execution raises DuplicateWidgetID and ends the      *)
(* execution.  A widget's value survives to the next execution only under   *)
(* the same identity, and only if the widget was created in this one.       *)

WId(kind, text, arg, opts) == [kind |-> kind, text |-> text, arg |-> arg, opts |-> opts]

SummaryId(name) == WId("checkbox", "Show Summary for ", name, <<>>)
CleanId(name)   == WId("checkbox", "Clean & Transform Data for ", name, <<>>)
DedupId(name)   == WId("button", "Remove Duplicates from ", name, <<>>)
LowerId(name)   == WId("button", "Convert Text Columns to Lowercase for ", name, <<>>)
FillId(name)    == WId("button", "Fill Missing Values for ", name, <<>>)
StripId(name)   == WId("button", "Remove Special Characters from ", name, <<>>)
SelectId(name, t) ==
  WId("selectbox", "Select Column to Filter ", name, [c \in 1..Len(t.cols) |-> t.cols[c].label])
MultiId(col, opts) == WId("multiselect", "Choose values from ", LabelStr(col), opts)
ProfileId(name) == WId("checkbox", "Generate AI Report for ", name, <<>>)
VizId(name)     == WId("checkbox", "Show Visualization for ", name, <<>>)
RadioId(name)   == WId("radio", "key", name, <<>>)
ConvertId       == WId("button", "Convert", <<>>, <<>>)
NoClick         == WId("none", "", <<>>, <<>>)

\* st.multiselect(label, options, default=options) of line 77 checks every
\* default with `value in options`, after turning both arrays into lists.
\* For an object column both lists hold the same Python objects, so the check
\* passes.  For a float column each list holds fresh scalars, and a fresh NaN
\* equals nothing: the Streamlit releases that compare this way raise
\* StreamlitAPIException.  The repository pins no release, so both outcomes
\* are kept for a float column with a missing value.
DefaultCheck(dtype, unique_vals) ==
  IF dtype = "number" /\ NaN \in Range(unique_vals)
  THEN {"accepted", "rejected"}
  ELSE {"accepted"}

NoMulti == [set |-> FALSE, col |-> NaN, opts |-> <<>>, vals |-> <<>>]

\* the widget values of one file before the user touched anything
DefaultWidgets ==
  [summary |-> FALSE, clean |-> FALSE, profile |-> FALSE, viz |-> FALSE,
   col |-> 1, radio |-> "CSV", ms |-> NoMulti]

NoDownload == [set |-> FALSE, name |-> <<>>, mime |-> "", data |-> NoBuffer]

\* what one execution has produced for one file so far
Pending ==
  [status |-> "pending", w |-> {}, error |-> FALSE, msg |-> "none",
   chart |-> NoChart, download |-> NoDownload]

\* end of an execution: Streamlit forgets the value of every widget that the
\* execution did not create
Forget(ws, r) ==
  [j \in DOMAIN ws |->
     [summary |-> IF "summary" \in r[j].w THEN ws[j].summary ELSE FALSE,
      clean   |-> IF "clean" \in r[j].w THEN ws[j].clean ELSE FALSE,
      profile |-> IF "profile" \in r[j].w THEN ws[j].profile ELSE FALSE,
      viz     |-> IF "viz" \in r[j].w THEN ws[j].viz ELSE FALSE,
      col     |-> IF "selectbox" \in r[j].w THEN ws[j].col ELSE 1,
      radio   |-> IF "radio" \in r[j].w THEN ws[j].radio ELSE "CSV",
      ms      |-> IF "multiselect" \in r[j].w THEN ws[j].ms ELSE NoMulti]]

-----------------------------------------------------------------------------
(* State *)

VARIABLES
  uploaded_files,   \* line 16: the upload, a sequence of Catalog positions
  wstate,           \* the widget values Streamlit keeps, per uploaded file
  clicked,          \* the button whose click started this execution
  prevClick,        \* the button whose click started the previous one
  interactions,     \* user interactions so far
  pc,               \* the stage the execution is about to run
  i,                \* position of the loop of line 19
  df, file, file_ext,                            \* the script's variables;
  selected_col, selected_vals, conversion_type,  \* file holds file.name
  registry,         \* identities of the widgets this execution created
  res,              \* per file: what this execution rendered and produced
  cleanedOps,       \* history: per file, the cleanings performed so far
  firstFilter,      \* history: per file, the first narrowing filter applied
  lastExport        \* history: the buffer of the latest export

session == <<uploaded_files, interactions, prevClick>>
locals  == <<df, file, file_ext, selected_col, selected_vals, conversion_type>>
history == <<cleanedOps, firstFilter, lastExport>>
vars == <<uploaded_files, wstate, clicked, prevClick, interactions, pc, i,
          df, file, file_ext, selected_col, selected_vals, conversion_type,
          registry, res, cleanedOps, firstFilter, lastExport>>

N == Len(uploaded_files)
OrigName(j) == Catalog[uploaded_files[j]].name
Ended == pc \in {"done", "crashed"}

NoFilter == [set |-> FALSE, col |-> NaN, vals |-> <<>>]

\* the script has run once with nothing uploaded: line 18 is false
Init ==
  /\ uploaded_files = <<>>
  /\ wstate = <<>>
  /\ clicked = NoClick
  /\ prevClick = NoClick
  /\ interactions = 0
  /\ pc = "done"
  /\ i = 1
  /\ df = NoTable
  /\ file = <<>>
  /\ file_ext = <<>>
  /\ selected_col = NaN
  /\ selected_vals = <<>>
  /\ conversion_type = "CSV"
  /\ registry = {}
  /\ res = <<>>
  /\ cleanedOps = <<>>
  /\ firstFilter = <<>>
  /\ lastExport = NoBuffer

-----------------------------------------------------------------------------
(* One execution of the script, stage by stage *)

\* the loop of line 19 moves on, or the script ends at line 129
Advance(r) ==
  /\ res' = r
  /\ IF i < N
     THEN /\ pc' = "load"
          /\ i' = i + 1
          /\ wstate' = wstate
     ELSE /\ pc' = "done"
          /\ i' = i
          /\ wstate' = Forget(wstate, r)

\* an exception raised by a widget call (DuplicateWidgetID,
\* StreamlitAPIException): the execution ends here, later files are not
\* reached
Crash(r, why) ==
  /\ res' = [r EXCEPT ![i].status = why]
  /\ pc' = "crashed"
  /\ i' = i
  /\ wstate' = Forget(wstate, r)

\* lines 20-36
Load ==
  /\ pc = "load"
  /\ LET f == Catalog[uploaded_files[i]]
         ext == StrLower(SplitExt(f.name)[2])
     IN /\ file' = f.name
        /\ file_ext' = ext
        /\ IF ext = ExtCsv \/ ext = ExtXlsx
           THEN /\ df' = IF ext = ExtCsv THEN read_csv(f) ELSE read_excel(f)
                /\ res' = [res EXCEPT ![i].status = "running"]
                /\ pc' = "summary"
                /\ UNCHANGED <<i, wstate>>
           ELSE /\ df' = df
                /\ Advance([res EXCEPT ![i].status = "unsupported", ![i].error = TRUE])
  /\ UNCHANGED <<session, clicked, selected_col, selected_vals, conversion_type,
                 registry, history>>

\* lines 39-43; the summary itself is display only
Summary ==
  /\ pc = "summary"
  /\ IF SummaryId(file) \in registry
     THEN /\ Crash(res, "aborted")
          /\ UNCHANGED registry
     ELSE /\ registry' = registry \cup {SummaryId(file)}
          /\ res' = [res EXCEPT ![i].w = @ \cup {"summary"}]
          /\ pc' = "clean"
          /\ UNCHANGED <<i, wstate>>
  /\ UNCHANGED <<session, clicked, locals, history>>

\* lines 46-71: the four buttons exist only while the checkbox is ticked, and
\* a button is True only in the execution its click started
Clean ==
  /\ pc = "clean"
  /\ IF CleanId(file) \in registry
     THEN /\ Crash(res, "aborted")
          /\ UNCHANGED <<registry, df, cleanedOps>>
     ELSE LET on == wstate[i].clean
              op == IF ~on THEN "none"
                    ELSE IF clicked = DedupId(file) THEN "dedup"
                    ELSE IF clicked = LowerId(file) THEN "lower"
                    ELSE IF clicked = FillId(file) THEN "fill"
                    ELSE IF clicked = StripId(file) THEN "strip"
                    ELSE "none"
              t1 == IF op = "dedup" THEN drop_duplicates(df) ELSE df
              t2 == IF op = "lower" THEN LowercaseText(t1) ELSE t1
              t3 == IF op = "fill" THEN FillMissing(t2) ELSE <<t2, "success">>
              t4 == IF op = "strip" THEN RemoveSpecial(t3[1]) ELSE t3[1]
          IN /\ registry' = registry \cup {CleanId(file)} \cup
                  (IF on THEN {DedupId(file), LowerId(file), FillId(file), StripId(file)}
                   ELSE {})
             /\ df' = t4
             /\ res' = [res EXCEPT ![i].w = @ \cup {"clean"} \cup (IF on THEN {"buttons"} ELSE {}),
                                   ![i].msg = IF op = "none" THEN "none" ELSE t3[2]]
             /\ cleanedOps' = IF op = "none" \/ t3[2] # "success" THEN cleanedOps
                              ELSE [cleanedOps EXCEPT ![i] = @ \cup {op}]
             /\ pc' = "filter"
             /\ UNCHANGED <<i, wstate>>
  /\ UNCHANGED <<session, clicked, file, file_ext, selected_col, selected_vals,
                 conversion_type, firstFilter, lastExport>>

\* lines 75-78: the multiselect's label names the column only, and its
\* options are the column's current distinct values
Filter ==
  /\ pc = "filter"
  /\ LET c == wstate[i].col
         col == df.cols[c].label
         unique_vals == unique(df, c)
         id == MultiId(col, unique_vals)
         kept == wstate[i].ms.set /\ wstate[i].ms.col = col /\ wstate[i].ms.opts = unique_vals
         vals == IF kept THEN wstate[i].ms.vals ELSE unique_vals
     IN IF SelectId(file, df) \in registry
        THEN /\ Crash(res, "aborted")
             /\ UNCHANGED <<registry, df, selected_col, selected_vals, firstFilter>>
        ELSE \E outcome \in DefaultCheck(df.cols[c].dtype, unique_vals) :
        IF id \in registry \/ outcome = "rejected"
        THEN /\ Crash([res EXCEPT ![i].w = @ \cup {"selectbox"}],
                      IF id \in registry THEN "aborted" ELSE "rejected")
             /\ registry' = registry \cup {SelectId(file, df)}
             /\ selected_col' = col
             /\ UNCHANGED <<df, selected_vals, firstFilter>>
        ELSE /\ registry' = registry \cup {SelectId(file, df), id}
             /\ selected_col' = col
             /\ selected_vals' = vals
             /\ df' = FilterRows(df, c, vals)
             /\ wstate' = [wstate EXCEPT ![i].ms =
                             [set |-> TRUE, col |-> col, opts |-> unique_vals, vals |-> vals]]
             /\ res' = [res EXCEPT ![i].w = @ \cup {"selectbox", "multiselect"}]
             /\ firstFilter' = IF ~firstFilter[i].set /\ vals # unique_vals
                               THEN [firstFilter EXCEPT ![i] =
                                       [set |-> TRUE, col |-> col, vals |-> vals]]
                               ELSE firstFilter
             /\ pc' = "profile"
             /\ i' = i
  /\ UNCHANGED <<session, clicked, file, file_ext, conversion_type, cleanedOps, lastExport>>

\* lines 84-95: the report is display only, but line 92 rebinds `file` to the
\* opened temporary file, whose .name is the temporary path
Profile ==
  /\ pc = "profile"
  /\ IF ProfileId(file) \in registry
     THEN /\ Crash(res, "aborted")
          /\ UNCHANGED <<registry, file>>
     ELSE /\ registry' = registry \cup {ProfileId(file)}
          /\ res' = [res EXCEPT ![i].w = @ \cup {"profile"}]
          /\ IF wstate[i].profile
             THEN \E r \in TmpRand : file' = TmpName(r)
             ELSE file' = file
          /\ pc' = "viz"
          /\ UNCHANGED <<i, wstate>>
  /\ UNCHANGED <<session, clicked, df, file_ext, selected_col, selected_vals,
                 conversion_type, history>>

\* lines 99-104: the checkbox is labelled with the current file.name; under a
\* label never used before it is a new widget, unticked
Visualize ==
  /\ pc = "viz"
  /\ IF VizId(file) \in registry
     THEN /\ Crash(res, "aborted")
          /\ UNCHANGED registry
     ELSE LET own == file = OrigName(i)
              on == own /\ wstate[i].viz
          IN /\ registry' = registry \cup {VizId(file)}
             /\ res' = [res EXCEPT ![i].w = @ \cup {IF own THEN "viz" ELSE "viz_tmp"},
                                   ![i].chart = IF on THEN Visualization(df) ELSE NoChart]
             /\ pc' = "convert"
             /\ UNCHANGED <<i, wstate>>
  /\ UNCHANGED <<session, clicked, locals, history>>

\* .fillna("") on one cell
BlankCell(v) == IF v.k = "nan" THEN StrCell(<<>>) ELSE v

\* as Export, with df.fillna("", inplace=True) before the serialisation
Export_fills_in_place(t, ctype, name, ext) ==
  LET u == [t EXCEPT !.rows = [r \in 1..Len(t.rows) |->
              [t.rows[r] EXCEPT !.cells = [c \in 1..Len(t.cols) |->
                 BlankCell(t.rows[r].cells[c])]]]]
  IN [df |-> u,
      buffer |-> IF ctype = "CSV" THEN to_csv(u) ELSE to_excel(u),
      file_name |-> StrReplace(name, ext, IF ctype = "CSV" THEN ExtCsv ELSE ExtXlsx),
      mime_type |-> IF ctype = "CSV" THEN MimeCsv ELSE MimeXlsx]

\* lines 111-119: the values of df, buffer, file_name and mime_type after them
Export(t, ctype, name, ext) ==
  [df |-> t,
   buffer |-> IF ctype = "CSV" THEN to_csv(t) ELSE to_excel(t),
   file_name |-> StrReplace(name, ext, IF ctype = "CSV" THEN ExtCsv ELSE ExtXlsx),
   mime_type |-> IF ctype = "CSV" THEN MimeCsv ELSE MimeXlsx]

\* lines 109-127, then the loop moves on: the radio is keyed by the current
\* file.name, the button is labelled "Convert" for every file and has no key
Convert ==
  /\ pc = "convert"
  /\ IF RadioId(file) \in registry
     THEN /\ Crash(res, "aborted")
          /\ UNCHANGED <<registry, df, conversion_type, lastExport>>
     ELSE LET own == file = OrigName(i)
              ctype == IF own THEN wstate[i].radio ELSE "CSV"
              r1 == [res EXCEPT ![i].w = @ \cup {IF own THEN "radio" ELSE "radio_tmp"}]
          IN /\ conversion_type' = ctype
             /\ IF ConvertId \in registry
                THEN /\ Crash(r1, "aborted")
                     /\ registry' = registry \cup {RadioId(file)}
                     /\ UNCHANGED <<df, lastExport>>
                ELSE /\ registry' = registry \cup {RadioId(file), ConvertId}
                     /\ IF clicked = ConvertId
                        THEN LET e == Export(df, ctype, file, file_ext)
                             IN /\ df' = e.df
                                /\ lastExport' = e.buffer
                                /\ Advance([r1 EXCEPT ![i].w = @ \cup {"convert"},
                                                      ![i].status = "complete",
                                                      ![i].download =
                                                         [set |-> TRUE, name |-> e.file_name,
                                                          mime |-> e.mime_type, data |-> e.buffer]])
                        ELSE /\ UNCHANGED <<df, lastExport>>
                             /\ Advance([r1 EXCEPT ![i].w = @ \cup {"convert"},
                                                   ![i].status = "complete"])
  /\ UNCHANGED <<session, clicked, file, file_ext, selected_col, selected_vals,
                 cleanedOps, firstFilter>>

-----------------------------------------------------------------------------
(* User interactions: each one changes at most one widget value and starts  *)
(* a new execution of the script from line 1                                *)

Rerun(button, ws) ==
  /\ Ended
  /\ N > 0
  /\ N + interactions < MaxSession
  /\ interactions' = interactions + 1
  /\ prevClick' = clicked
  /\ clicked' = button
  /\ wstate' = ws
  /\ pc' = "load"
  /\ i' = 1
  /\ registry' = {}
  /\ res' = [j \in 1..N |-> Pending]
  /\ df' = NoTable
  /\ file' = <<>>
  /\ file_ext' = <<>>
  /\ selected_col' = NaN
  /\ selected_vals' = <<>>
  /\ conversion_type' = "CSV"
  /\ UNCHANGED <<uploaded_files, history>>

\* line 16: the user submits one or more files
Upload ==
  /\ Ended
  /\ N = 0
  /\ \E n \in 1..MaxSession : \E fs \in [1..n -> 1..Len(Catalog)] :
       /\ uploaded_files' = fs
       /\ wstate' = [j \in 1..n |-> DefaultWidgets]
       /\ res' = [j \in 1..n |-> Pending]
       /\ cleanedOps' = [j \in 1..n |-> {}]
       /\ firstFilter' = [j \in 1..n |-> NoFilter]
  /\ pc' = "load"
  /\ i' = 1
  /\ registry' = {}
  /\ UNCHANGED <<clicked, prevClick, interactions, locals, lastExport>>

\* lines 40, 46, 84, 99: tick or untick a checkbox that is on the page
ToggleCheckbox ==
  \E j \in 1..N : \E which \in {"summary", "clean", "profile", "viz"} :
    /\ which \in res[j].w
    /\ Rerun(NoClick,
         [wstate EXCEPT ![j] =
            CASE which = "summary" -> [@ EXCEPT !.summary = ~@]
              [] which = "clean"   -> [@ EXCEPT !.clean = ~@]
              [] which = "profile" -> [@ EXCEPT !.profile = ~@]
              [] which = "viz"     -> [@ EXCEPT !.viz = ~@]])

\* lines 99, 109 after line 92: the widget was created under the temporary
\* path; the next execution creates it under another, so the value is lost
TouchTemporaryWidget ==
  \E j \in 1..N :
    /\ res[j].w \cap {"viz_tmp", "radio_tmp"} # {}
    /\ Rerun(NoClick, wstate)

\* lines 50, 54, 60, 68
ClickClean ==
  \E j \in 1..N :
    /\ "buttons" \in res[j].w
    /\ \E b \in {DedupId(OrigName(j)), LowerId(OrigName(j)),
                 FillId(OrigName(j)), StripId(OrigName(j))} :
         Rerun(b, wstate)

\* line 75
SelectColumn ==
  \E j \in 1..N : \E c \in 1..Len(Catalog[uploaded_files[j]].table.cols) :
    /\ "selectbox" \in res[j].w
    /\ c # wstate[j].col
    /\ Rerun(NoClick, [wstate EXCEPT ![j].col = c])

RECURSIVE Pick(_, _, _)
Pick(opts, S, from) ==
  IF from > Len(opts) THEN <<>>
  ELSE (IF from \in S THEN <<opts[from]>> ELSE <<>>) \o Pick(opts, S, from + 1)

\* line 77: any subset of the options on display
ChooseValues ==
  \E j \in 1..N :
    /\ "multiselect" \in res[j].w
    /\ \E S \in SUBSET (1..Len(wstate[j].ms.opts)) :
         /\ Pick(wstate[j].ms.opts, S, 1) # wstate[j].ms.vals
         /\ Rerun(NoClick, [wstate EXCEPT ![j].ms.vals = Pick(wstate[j].ms.opts, S, 1)])

\* line 109
ChooseFormat ==
  \E j \in 1..N :
    /\ "radio" \in res[j].w
    /\ Rerun(NoClick, [wstate EXCEPT ![j].radio = IF @ = "CSV" THEN "Excel" ELSE "CSV"])

\* line 110: the one button labelled "Convert"
ClickConvert ==
  /\ \E j \in 1..N : "convert" \in res[j].w
  /\ Rerun(ConvertId, wstate)

Next ==
  \/ Upload
  \/ ToggleCheckbox
  \/ TouchTemporaryWidget
  \/ ClickClean
  \/ SelectColumn
  \/ ChooseValues
  \/ ChooseFormat
  \/ ClickConvert
  \/ Load
  \/ Summary
  \/ Clean
  \/ Filter
  \/ Profile
  \/ Visualize
  \/ Convert

Spec == Init /\ [][Next]_vars

-----------------------------------------------------------------------------
(* Properties *)

\* no two uploaded files bear the same name
DistinctNames == \A j, k \in 1..N : j # k => OrigName(j) # OrigName(k)

\* the default check of line 77 has refused no file's multiselect
NoneRejected == \A j \in 1..N : res[j].status # "rejected"

\* the extension test of the specification: .csv or .xlsx, in any case
Supported(j) == StrLower(SplitExt(OrigName(j))[2]) \in {ExtCsv, ExtXlsx}

\* the table as freshly loaded from the j-th upload
Loaded(j) ==
  IF StrLower(SplitExt(OrigName(j))[2]) = ExtCsv
  THEN read_csv(Catalog[uploaded_files[j]])
  ELSE read_excel(Catalog[uploaded_files[j]])

NumericPositions(t) == {c \in 1..Len(t.cols) : t.cols[c].dtype = "number"}
TextPositions(t)    == {c \in 1..Len(t.cols) : t.cols[c].dtype = "object"}
Present(t, c)       == {r \in 1..Len(t.rows) : t.rows[r].cells[c].k = "num"}

\* the effect of a cleaning is visible in table t
Applied(op, t) ==
  CASE op = "dedup" ->
         \A p, q \in 1..Len(t.rows) : p # q => t.rows[p].cells # t.rows[q].cells
    [] op = "lower" ->
         \A r \in 1..Len(t.rows) : \A c \in TextPositions(t) :
            t.rows[r].cells[c].s = StrLower(t.rows[r].cells[c].s)
    [] op = "fill" ->
         \A c \in NumericPositions(t) :
            Present(t, c) # {} => Present(t, c) = 1..Len(t.rows)
    [] op = "strip" ->
         \A r \in 1..Len(t.rows) : \A c \in TextPositions(t) :
            \A k \in 1..Len(t.rows[r].cells[c].s) : KeptChar(t.rows[r].cells[c].s[k])

\* C1: once a cleaning has been performed on a file, every later pass over
\* that file works, from the Filter stage on, on a table that still shows the
\* cleaning's effect.
C1_CleaningPersists ==
  pc \in {"filter", "profile", "viz", "convert"} =>
    \A op \in cleanedOps[i] : Applied(op, df)

C3_ExportNameAndMime ==
  \A j \in 1..N :
    res[j].download.set =>
      LET csv == res[j].download.data.fmt = "csv"
      IN /\ res[j].download.name =
              SplitExt(OrigName(j))[1] \o (IF csv THEN ExtCsv ELSE ExtXlsx)
         /\ res[j].download.mime = (IF csv THEN MimeCsv ELSE MimeXlsx)

C5_FiltersCompose ==
  (/\ pc = "profile"
   /\ firstFilter[i].set
   /\ firstFilter[i].vals # <<>>
   /\ firstFilter[i].col # selected_col
   /\ NaN \notin Range(selected_vals)
   /\ cleanedOps[i] = {}) =>
    LET t == Loaded(i)
        a == CHOOSE c \in 1..Len(t.cols) : t.cols[c].label = firstFilter[i].col
        b == wstate[i].col
    IN df.rows = SelectSeq(t.rows,
                   LAMBDA r : /\ r.cells[a] \in Range(firstFilter[i].vals)
                              /\ r.cells[b] \in Range(selected_vals))

\* C6: with all names distinct and no multiselect default check refusing, no
\* execution ends in a widget clash, and at its end every supported file has been processed through its last stage and has its own Convert
\* button.
C6_FilesIndependent ==
  (Ended /\ DistinctNames /\ NoneRejected) =>
    /\ pc = "done"
    /\ \A j \in 1..N :
         Supported(j) => res[j].status = "complete" /\ "convert" \in res[j].w

\* C7: the Convert stage leaves the table as it was, and a CSV export that
\* directly follows a CSV export yields the same buffer.
C7_ExportIsPureRead ==
  [][pc = "convert" =>
       /\ df' = df
       /\ (/\ clicked = ConvertId
           /\ prevClick = ConvertId
           /\ lastExport.fmt = "csv"
           /\ res'[i].download.set
           /\ res'[i].download.data.fmt = "csv")
          => res'[i].download.data = lastExport]_vars

C7_Witness ==
  /\ clicked = ConvertId
  /\ prevClick = ConvertId
  /\ \E j \in 1..N :
       /\ res[j].download.set
       /\ res[j].download.data.fmt = "csv"
       /\ res[j].download.data = lastExport
       /\ Len(res[j].download.data.lines) > 0
       /\ Len(res[j].download.data.lines) < Len(Loaded(j).rows)

\* the mean of the present values of column c, as a fraction in lowest terms
MeanOfPresent(t, c) ==
  LET P == Present(t, c)
      RECURSIVE Sum(_)
      Sum(Q) == IF Q = {} THEN <<0, 1>>
                ELSE LET r == CHOOSE r \in Q : TRUE
                         rest == Sum(Q \ {r})
                         v == t.rows[r].cells[c]
                     IN <<v.n * rest[2] + rest[1] * v.d, v.d * rest[2]>>
      total == Sum(P)
  IN Frac(total[1], total[2] * Cardinality(P))

\* C8: Fill missing values, on a table with a numeric column, puts the mean
\* of the present values in place of each missing numeric entry, changes
\* nothing else and reports success; without a numeric column it changes
\* nothing and warns.
C8_FillMissingMean ==
  [][(pc = "clean" /\ pc' = "filter" /\ wstate[i].clean /\ clicked = FillId(file)) =>
       IF NumericPositions(df) # {}
       THEN /\ res'[i].msg = "success"
            /\ df'.cols = df.cols
            /\ Len(df'.rows) = Len(df.rows)
            /\ \A r \in 1..Len(df.rows) :
                 /\ df'.rows[r].idx = df.rows[r].idx
                 /\ \A c \in 1..Len(df.cols) :
                      df'.rows[r].cells[c] =
                        IF /\ c \in NumericPositions(df)
                           /\ df.rows[r].cells[c].k = "nan"
                           /\ Present(df, c) # {}
                        THEN MeanOfPresent(df, c)
                        ELSE df.rows[r].cells[c]
       ELSE df' = df /\ res'[i].msg = "warning"]_vars

\* C9: the Visualize stage leaves the table as it was; when its checkbox is
\* ticked it shows a bar chart of the first two numeric columns if the table
\* has at least two, and a warning and no chart otherwise.
C9_VisualizeNeedsTwoNumeric ==
  [][(pc = "viz" /\ pc' = "convert") =>
       LET P == NumericPositions(df)
           first == CHOOSE c \in P : \A e \in P : c <= e
           second == CHOOSE c \in P \ {first} : \A e \in P \ {first} : c <= e
           ticked == wstate[i].viz /\ file = OrigName(i)
       IN /\ df' = df
          /\ ticked /\ Cardinality(P) >= 2 =>
               /\ res'[i].chart.shown = "chart"
               /\ res'[i].chart.data = Project(df, <<first, second>>)
          /\ ticked /\ Cardinality(P) < 2 =>
               res'[i].chart = [shown |-> "warning", data |-> NoTable]
          /\ ~ticked => res'[i].chart.shown = "off"]_vars

C9_Witness ==
  \E j, k \in 1..N :
    /\ res[j].chart.shown = "chart"
    /\ Len(res[j].chart.data.cols) = 2
    /\ res[k].chart.shown = "warning"

\* C10: the Visualize and Convert stages see the uploaded file's own name,
\* whether or not the report was generated.
C10_ProfileKeepsFileIdentity ==
  pc \in {"viz", "convert"} => file = OrigName(i)

====
